---- MODULE Spec2Model ----
(***************************************************************************)
(* Model of generate_page.py: the start-up credential check, the quote     *)
(* fetch and classification (get_market_data), the embed lookup            *)
(* (get_visual_humor_embed), the page rendering (generate_html) and the    *)
(* main block.                                                             *)
(*                                                                         *)
(* Numbers of the JSON body are held in hundredths (dp = -1000 is -10.00), *)
(* so the thresholds -10, -5, -2, 2 and 0.2 are -1000, -500, -200, 200 and *)
(* 20.  Python's None and JSON's null are the value JNull; an optional     *)
(* string (error_msg, API_KEY) is a sequence of at most one string.        *)
(***************************************************************************)
EXTENDS Integers, Sequences, FiniteSets, TLC

VARIABLES pc, api_key, response, market_data, uncaught, requests_sent,
          output_file, html_fault, html_result, exit_code

vars == <<pc, api_key, response, market_data, uncaught, requests_sent,
          output_file, html_fault, html_result, exit_code>>

(* ---------------- bounds ---------------- *)

\* largest magnitude (in percent) of the daily change the API may report
MaxChange == 11

\* largest price (in whole currency units) the API may report
MaxPrice == 2

(* ---------------- configuration ---------------- *)

INDEX_SYMBOL == "SPY"

HTML_TEMPLATE_FILE == "template.html"

(* ---------------- JSON / Python values ---------------- *)

JNull == [type |-> "null", val |-> 0]

JNum(n) == [type |-> "number", val |-> n]

JNaN == [type |-> "nan", val |-> 0]

JStr == [type |-> "string", val |-> 0]

JArr == [type |-> "array", val |-> 0]

\* values the 'dp' field can take: absent or null, a number, NaN, a string, a list
DpValues ==
    {JNull, JNaN, JStr, JArr} \cup {JNum(n) : n \in (-(MaxChange * 100))..(MaxChange * 100)}

\* values the 'c' field can take
PriceValues ==
    {JNull, JStr} \cup {JNum(n) : n \in {0, 5, MaxPrice * 100 - 1}}

\* what session.get / raise_for_status / response.json can produce
Responses ==
    {[kind |-> k, catch |-> k, object |-> FALSE, dp |-> JNull, c |-> JNull] :
        k \in {"Timeout", "RequestException"}}
    \cup
    \* a 4xx or 5xx status, whose body is a JSON document (object) or is not
    {[kind |-> "HTTPError", catch |-> "HTTPError", object |-> b, dp |-> JNull, c |-> JNull] :
        b \in BOOLEAN}
    \cup
    \* a body that is not JSON: response.json() raises a JSONDecodeError, which
    \* is a RequestException in newer releases of requests and a plain ValueError
    \* in older ones
    {[kind |-> "InvalidJSON", catch |-> h, object |-> FALSE, dp |-> JNull, c |-> JNull] :
        h \in {"RequestException", "Exception"}}
    \cup
    \* a JSON body that is not an object (a list, a number): it has no .get
    {[kind |-> "OK", catch |-> "", object |-> FALSE, dp |-> JNull, c |-> JNull]}
    \cup
    {[kind |-> "OK", catch |-> "", object |-> TRUE, dp |-> d, c |-> p] :
        d \in DpValues, p \in PriceValues}

(* ---------------- formatting ---------------- *)

TwoDigits(n) == IF n < 10 THEN "0" \o ToString(n) ELSE ToString(n)

Abs(n) == IF n < 0 THEN 0 - n ELSE n

\* f"{v:.2f}" succeeds for int and float (NaN included), raises ValueError for a
\* str and TypeError for a list
FormatError(v) ==
    CASE v.type = "string" -> "ValueError"
      [] v.type = "array" -> "TypeError"
      [] v.type = "null" -> "TypeError"
      [] OTHER -> ""

\* f"{v:.2f}" of a number held in hundredths
Format2f(v) ==
    IF v.type = "nan" THEN "nan"
    ELSE (IF v.val < 0 THEN "-" ELSE "")
             \o ToString(Abs(v.val) \div 100) \o "." \o TwoDigits(Abs(v.val) % 100)

\* Python comparisons of a number with a constant; every comparison with NaN is False
Le(v, k) == v.type = "number" /\ v.val <= k

Lt(v, k) == v.type = "number" /\ v.val < k

Gt(v, k) == v.type = "number" /\ v.val > k

(* ---------------- get_visual_humor_embed ---------------- *)

\* the table of embeds, each snippet named by the address of its iframe
embed_map ==
    [sc \in {"yes", "wobbly", "bleeding", "no", "climbing", "sideways", "error"} |->
        CASE sc = "yes" -> "https://giphy.com/embed/1rNWZu4QQqCUaq434T"
          [] sc = "wobbly" -> "https://giphy.com/embed/NTur7XlVDUdqM"
          [] sc = "bleeding" -> "https://giphy.com/embed/3IMr40UId6417vSWZ6"
          [] sc = "no" -> "https://giphy.com/embed/d8SRR4aDUINuU"
          [] sc = "climbing" -> "https://giphy.com/embed/NEvPzZ8bd1V4Y"
          [] sc = "sideways" -> "https://giphy.com/embed/l1J3VHwlmsc9vsmju"
          [] sc = "error" -> "https://giphy.com/embed/JliGmPEIgzGLe"]

default_embed == "https://giphy.com/embed/l0HlHFRbmaZtBRhXG"

\* a lookup with no fallback: dict.get(status_class) gives None, the empty snippet
get_visual_humor_embed_nodefault(status_class) ==
    IF status_class \in DOMAIN embed_map THEN embed_map[status_class] ELSE ""

\* embed_map.get(status_class, default_embed)
get_visual_humor_embed(status_class) ==
    IF status_class \in DOMAIN embed_map THEN embed_map[status_class] ELSE default_embed

(* ---------------- get_market_data ---------------- *)

\* the local variables at the top of get_market_data
InitialLocals ==
    [overall_index_change |-> JNum(0),
     current_price |-> JNull,
     error_msg |-> <<>>,
     status_text |-> "MAYBE?",
     status_class |-> "maybe",
     subtitle |-> "Checking the market pulse...",
     arrow_character |-> ""]

\* the reading of the body with no note left in error_msg for a missing dp
ReadQuote_NoAdvisory(l, resp) ==
    LET l1 == [l EXCEPT !.overall_index_change = resp.dp, !.current_price = resp.c]
    IN  IF l1.overall_index_change = JNull
        THEN [l1 EXCEPT !.overall_index_change = JNum(0)]
        ELSE l1

\* dp and c read from the body; a missing dp is taken as flat, noted in error_msg
ReadQuote(l, resp) ==
    LET l1 == [l EXCEPT !.overall_index_change = resp.dp, !.current_price = resp.c]
    IN  IF l1.overall_index_change = JNull
        THEN [l1 EXCEPT !.overall_index_change = JNum(0),
                        !.error_msg = <<"Could not retrieve percent change for "
                                          \o INDEX_SYMBOL \o ".">>]
        ELSE l1

\* the chain with "<= -2" where the code has "< -2"
Classify_WobblyInclusive(l) ==
    LET p == l.overall_index_change
        f == Format2f(p)
    IN  IF Le(p, -1000)
        THEN [l EXCEPT !.status_text = "YES!", !.status_class = "yes",
                       !.subtitle = "S&P 500 down " \o f \o "%. Deep breaths.",
                       !.arrow_character = "down"]
        ELSE IF Le(p, -500)
        THEN [l EXCEPT !.status_text = "BLEEDING", !.status_class = "bleeding",
                       !.subtitle = "S&P 500 down " \o f \o "%. Minor dip.",
                       !.arrow_character = "down"]
        ELSE IF Le(p, -200)
        THEN [l EXCEPT !.status_text = "WOBBLY", !.status_class = "wobbly",
                       !.subtitle = "S&P 500 down " \o f \o "%. Looking shaky.",
                       !.arrow_character = "down"]
        ELSE IF Gt(p, 200)
        THEN [l EXCEPT !.status_text = "NOT YET!", !.status_class = "no",
                       !.subtitle = "S&P 500 up " \o f \o "%. Still climbing!",
                       !.arrow_character = "up"]
        ELSE IF Gt(p, 20)
        THEN [l EXCEPT !.status_text = "CLIMBING", !.status_class = "climbing",
                       !.subtitle = "S&P 500 up " \o f \o "%. Gentle rise.",
                       !.arrow_character = "up"]
        ELSE [l EXCEPT !.status_text = "FLAT", !.status_class = "sideways",
                       !.subtitle = "S&P 500 change: " \o f \o "%. Holding steady...",
                       !.arrow_character = "flat"]

\* the chain with the test "> 0.2" placed before the test "> 2"
Classify_MildRiseFirst(l) ==
    LET p == l.overall_index_change
        f == Format2f(p)
    IN  IF Le(p, -1000)
        THEN [l EXCEPT !.status_text = "YES!", !.status_class = "yes",
                       !.subtitle = "S&P 500 down " \o f \o "%. Deep breaths.",
                       !.arrow_character = "down"]
        ELSE IF Le(p, -500)
        THEN [l EXCEPT !.status_text = "BLEEDING", !.status_class = "bleeding",
                       !.subtitle = "S&P 500 down " \o f \o "%. Minor dip.",
                       !.arrow_character = "down"]
        ELSE IF Lt(p, -200)
        THEN [l EXCEPT !.status_text = "WOBBLY", !.status_class = "wobbly",
                       !.subtitle = "S&P 500 down " \o f \o "%. Looking shaky.",
                       !.arrow_character = "down"]
        ELSE IF Gt(p, 20)
        THEN [l EXCEPT !.status_text = "CLIMBING", !.status_class = "climbing",
                       !.subtitle = "S&P 500 up " \o f \o "%. Gentle rise.",
                       !.arrow_character = "up"]
        ELSE IF Gt(p, 200)
        THEN [l EXCEPT !.status_text = "NOT YET!", !.status_class = "no",
                       !.subtitle = "S&P 500 up " \o f \o "%. Still climbing!",
                       !.arrow_character = "up"]
        ELSE [l EXCEPT !.status_text = "FLAT", !.status_class = "sideways",
                       !.subtitle = "S&P 500 change: " \o f \o "%. Holding steady...",
                       !.arrow_character = "flat"]

\* the if/elif chain on overall_index_change; the arrows are named: "down" is
\* the glyph U+25BC, "up" is U+25B2 and "flat" is U+25AC
Classify(l) ==
    LET p == l.overall_index_change
        f == Format2f(p)
    IN  IF Le(p, -1000)
        THEN [l EXCEPT !.status_text = "YES!", !.status_class = "yes",
                       !.subtitle = "S&P 500 down " \o f \o "%. Deep breaths.",
                       !.arrow_character = "down"]
        ELSE IF Le(p, -500)
        THEN [l EXCEPT !.status_text = "BLEEDING", !.status_class = "bleeding",
                       !.subtitle = "S&P 500 down " \o f \o "%. Minor dip.",
                       !.arrow_character = "down"]
        ELSE IF Lt(p, -200)
        THEN [l EXCEPT !.status_text = "WOBBLY", !.status_class = "wobbly",
                       !.subtitle = "S&P 500 down " \o f \o "%. Looking shaky.",
                       !.arrow_character = "down"]
        ELSE IF Gt(p, 200)
        THEN [l EXCEPT !.status_text = "NOT YET!", !.status_class = "no",
                       !.subtitle = "S&P 500 up " \o f \o "%. Still climbing!",
                       !.arrow_character = "up"]
        ELSE IF Gt(p, 20)
        THEN [l EXCEPT !.status_text = "CLIMBING", !.status_class = "climbing",
                       !.subtitle = "S&P 500 up " \o f \o "%. Gentle rise.",
                       !.arrow_character = "up"]
        ELSE [l EXCEPT !.status_text = "FLAT", !.status_class = "sideways",
                       !.subtitle = "S&P 500 change: " \o f \o "%. Holding steady...",
                       !.arrow_character = "flat"]

\* the body of the try statement: the exception class that leaves it ("" for
\* none) and the local variables at that point
TryBody(resp) ==
    IF resp.kind # "OK"
    THEN [exc |-> resp.catch, locals |-> InitialLocals]
    ELSE IF ~resp.object
    THEN [exc |-> "Exception", locals |-> InitialLocals]
    ELSE LET l2 == ReadQuote(InitialLocals, resp)
         IN  IF FormatError(l2.overall_index_change) # ""
             THEN [exc |-> "Exception", locals |-> l2]
             ELSE [exc |-> "", locals |-> Classify(l2)]

\* except requests.exceptions.Timeout
ExceptTimeout(l) ==
    [l EXCEPT !.error_msg = <<"API request timed out.">>,
              !.status_text = "ERROR", !.status_class = "error",
              !.subtitle = "Could not fetch market data.",
              !.arrow_character = "?"]

\* except requests.exceptions.HTTPError: the message carries the error body's
\* JSON when it has one
ExceptHTTPError(l, resp) ==
    [l EXCEPT !.error_msg = IF resp.object
                            THEN <<"API HTTP error: HTTPError - details">>
                            ELSE <<"API HTTP error occurred: HTTPError">>,
              !.status_text = "ERROR", !.status_class = "error",
              !.subtitle = "Could not fetch market data.",
              !.arrow_character = "?"]

\* the handler with the arrow left as it was
ExceptRequestException_NoArrow(l) ==
    [l EXCEPT !.error_msg = <<"API Request error occurred: RequestException">>,
              !.status_text = "ERROR", !.status_class = "error",
              !.subtitle = "Could not fetch market data."]

\* except requests.exceptions.RequestException
ExceptRequestException(l) ==
    [l EXCEPT !.error_msg = <<"API Request error occurred: RequestException">>,
              !.status_text = "ERROR", !.status_class = "error",
              !.subtitle = "Could not fetch market data.",
              !.arrow_character = "?"]

\* the handler with status_class left as it was
ExceptException_KeepsClass(l) ==
    [l EXCEPT !.error_msg = <<"An unexpected error occurred: Exception">>,
              !.status_text = "ERROR",
              !.subtitle = "Could not determine market status.",
              !.arrow_character = "?"]

\* except Exception
ExceptException(l) ==
    [l EXCEPT !.error_msg = <<"An unexpected error occurred: Exception">>,
              !.status_text = "ERROR", !.status_class = "error",
              !.subtitle = "Could not determine market status.",
              !.arrow_character = "?"]

\* the try statement with its four handlers
TryExcept(resp) ==
    LET t == TryBody(resp)
    IN  CASE t.exc = "" -> t.locals
          [] t.exc = "Timeout" -> ExceptTimeout(t.locals)
          [] t.exc = "HTTPError" -> ExceptHTTPError(t.locals, resp)
          [] t.exc = "RequestException" -> ExceptRequestException(t.locals)
          [] OTHER -> ExceptException(t.locals)

\* the exception raised while the returned dictionary is built ("" for none):
\* both numbers are formatted unless they are None
ReturnError(l) ==
    IF l.overall_index_change # JNull /\ FormatError(l.overall_index_change) # ""
    THEN FormatError(l.overall_index_change)
    ELSE IF l.current_price # JNull /\ FormatError(l.current_price) # ""
    THEN FormatError(l.current_price)
    ELSE ""

\* the returned dictionary (generation_time, the clock's reading, is left out)
ReturnDict(l) ==
    [status_text |-> l.status_text,
     status_class |-> l.status_class,
     status_arrow |-> l.arrow_character,
     subtitle |-> l.subtitle,
     giphy_embed_code |-> get_visual_humor_embed(l.status_class),
     index_change_percent |->
         IF l.overall_index_change # JNull
         THEN Format2f(l.overall_index_change) \o "%" ELSE "N/A",
     index_current_price |->
         IF l.current_price # JNull THEN Format2f(l.current_price) ELSE "N/A",
     index_symbol |-> INDEX_SYMBOL,
     error_message |-> l.error_msg]

(* ---------------- generate_html ---------------- *)

\* what can go wrong inside generate_html, in the order of its statements
HtmlFaults == {"none", "TemplateNotFound", "TemplateError", "OpenError", "WriteError"}

\* template.render(data): the template bound to the dictionary's fields
Render(data) == [template |-> HTML_TEMPLATE_FILE, context |-> <<data>>]

OUTPUT_HTML_FILE == "index.html"

\* the file after open(output_path, 'w') and before anything is written
Truncated ==
    [path |-> OUTPUT_HTML_FILE, state |-> "truncated", template |-> "", context |-> <<>>]

\* a page of an earlier run, or no page yet
PriorFiles ==
    {[path |-> OUTPUT_HTML_FILE, state |-> s, template |-> "", context |-> <<>>] :
        s \in {"absent", "prior"}}

\* the function with a failed write reported as a success
generate_html_WriteUnchecked(data, fault, file) ==
    IF fault \in {"TemplateNotFound", "TemplateError", "OpenError"}
    THEN [result |-> FALSE, file |-> file]
    ELSE IF fault = "WriteError"
    THEN [result |-> TRUE, file |-> Truncated]
    ELSE [result |-> TRUE,
          file |-> [path |-> OUTPUT_HTML_FILE, state |-> "written",
                    template |-> Render(data).template,
                    context |-> Render(data).context]]

\* the function's result and the output file it leaves
generate_html(data, fault, file) ==
    IF fault \in {"TemplateNotFound", "TemplateError", "OpenError"}
    THEN [result |-> FALSE, file |-> file]
    ELSE IF fault = "WriteError"
    THEN [result |-> FALSE, file |-> Truncated]
    ELSE [result |-> TRUE,
          file |-> [path |-> OUTPUT_HTML_FILE, state |-> "written",
                    template |-> Render(data).template,
                    context |-> Render(data).context]]

(* ---------------- the program ---------------- *)

Init ==
    /\ pc = "config"
    /\ api_key \in {<<>>, <<"">>, <<"token">>}
    /\ response = <<>>
    /\ market_data = <<>>
    /\ uncaught = ""
    /\ requests_sent = 0
    /\ output_file \in PriorFiles
    /\ html_fault = ""
    /\ html_result = <<>>
    /\ exit_code = <<>>

\* API_KEY = os.environ.get(...); if not API_KEY: exit(1)
ConfigCheck ==
    /\ pc = "config"
    /\ IF api_key = <<>> \/ api_key = <<"">>
       THEN pc' = "exited" /\ exit_code' = <<1>>
       ELSE pc' = "main" /\ exit_code' = exit_code
    /\ UNCHANGED <<api_key, response, market_data, uncaught, requests_sent,
                   output_file, html_fault, html_result>>

\* market_data = get_market_data(); an exception that leaves the function is
\* not caught by the main block and ends the interpreter with status 1
GetMarketData ==
    /\ pc = "main"
    /\ \E resp \in Responses :
         LET l == TryExcept(resp)
             err == ReturnError(l)
         IN  /\ response' = <<resp>>
             /\ requests_sent' = requests_sent + 1
             /\ IF err # ""
                THEN /\ uncaught' = err
                     /\ market_data' = market_data
                     /\ pc' = "exited"
                     /\ exit_code' = <<1>>
                ELSE /\ uncaught' = uncaught
                     /\ market_data' = <<ReturnDict(l)>>
                     /\ pc' = "render"
                     /\ exit_code' = exit_code
    /\ UNCHANGED <<api_key, output_file, html_fault, html_result>>

\* generate_html(market_data); its result is not looked at
GenerateHtml ==
    /\ pc = "render"
    /\ \E fault \in HtmlFaults :
         LET r == generate_html(market_data[1], fault, output_file)
         IN  /\ html_fault' = fault
             /\ html_result' = <<r.result>>
             /\ output_file' = r.file
    /\ pc' = "finish"
    /\ UNCHANGED <<api_key, response, market_data, uncaught, requests_sent, exit_code>>

\* the last line is reached and the interpreter ends with status 0
ScriptFinished ==
    /\ pc = "finish"
    /\ pc' = "exited"
    /\ exit_code' = <<0>>
    /\ UNCHANGED <<api_key, response, market_data, uncaught, requests_sent,
                   output_file, html_fault, html_result>>

Next ==
    \/ ConfigCheck
    \/ GetMarketData
    \/ GenerateHtml
    \/ ScriptFinished

Spec == Init /\ [][Next]_vars

(* ---------------- the claims ---------------- *)

\* get_market_data was called and has returned or raised
Called == response # <<>>

\* get_market_data returned a dictionary
Returned == market_data # <<>>

\* the request or the reading of its body failed: an exception left the try body
FetchFailed == Called /\ TryBody(response[1]).exc # ""

\* the request succeeded with a JSON object whose dp is a number, absent or null
QuoteRead ==
    /\ Called
    /\ response[1].kind = "OK"
    /\ response[1].object
    /\ response[1].dp.type \in {"number", "null"}

\* the percent change that is classified, in hundredths (0 when dp is missing)
Percent == IF response[1].dp.type = "number" THEN response[1].dp.val ELSE 0

StatusClasses == {"yes", "bleeding", "wobbly", "no", "climbing", "sideways", "error"}

MoodClasses == StatusClasses \ {"error"}

\* C1: get_market_data never raises: whatever the request gives, the call
\* returns a report, and every failure gives a report of class "error".
C1_NeverRaises ==
    Called =>
        /\ uncaught = ""
        /\ Returned
        /\ (FetchFailed => market_data[1].status_class = "error")

\* C2 as stated: every percent change is put in exactly one of the six mood
\* classes, and the boundary values -10, -5, -2, 2 and 0.2 give yes, bleeding,
\* sideways, sideways and sideways.
C2_PartitionBoundaries ==
    (QuoteRead /\ Returned) =>
        LET sc == market_data[1].status_class
        IN  /\ Cardinality({m \in MoodClasses : m = sc}) = 1
            /\ (Percent = -1000 => sc = "yes")
            /\ (Percent = -500 => sc = "bleeding")
            /\ (Percent = -200 => sc = "sideways")
            /\ (Percent = 200 => sc = "sideways")
            /\ (Percent = 20 => sc = "sideways")

\* C2 amended: every percent change is put in exactly one of the six mood
\* classes, and the boundary values -10, -5, -2, 2 and 0.2 give yes, bleeding,
\* sideways, climbing and sideways.
C2_PartitionBoundariesAmended ==
    (QuoteRead /\ Returned) =>
        LET sc == market_data[1].status_class
        IN  /\ Cardinality({m \in MoodClasses : m = sc}) = 1
            /\ (Percent = -1000 => sc = "yes")
            /\ (Percent = -500 => sc = "bleeding")
            /\ (Percent = -200 => sc = "sideways")
            /\ (Percent = 200 => sc = "climbing")
            /\ (Percent = 20 => sc = "sideways")

C2_Witness ==
    /\ QuoteRead /\ Returned
    /\ Percent = 200
    /\ market_data[1].status_class = "climbing"

\* C3: after a timeout the report has class "error", arrow "?", an error
\* message, and "N/A" as its percent change.
C3_TimeoutReport ==
    (Called /\ response[1].kind = "Timeout") =>
        /\ Returned
        /\ market_data[1].status_class = "error"
        /\ market_data[1].status_arrow = "?"
        /\ market_data[1].error_message # <<>>
        /\ market_data[1].index_change_percent = "N/A"

\* the body has a numeric price and no percent change
MissingPercent ==
    /\ Called
    /\ response[1].kind = "OK"
    /\ response[1].object
    /\ response[1].dp = JNull
    /\ response[1].c.type = "number"

\* C4: a body with a numeric price and no percent change is reported as a 0%
\* change (class "sideways", flat arrow, "0.00%") with an advisory message,
\* and not as an error.
C4_MissingPercentIsFlat ==
    MissingPercent =>
        /\ Returned
        /\ market_data[1].status_class = "sideways"
        /\ market_data[1].status_class # "error"
        /\ market_data[1].status_arrow = "flat"
        /\ market_data[1].index_change_percent = "0.00%"
        /\ market_data[1].error_message # <<>>
        /\ market_data[1].error_message # <<"">>

C4_Witness ==
    /\ MissingPercent /\ Returned
    /\ market_data[1].index_current_price = "0.05"

\* C5: the class of every returned report is one of the seven enumerated
\* classes; the placeholder "maybe" is never returned.
C5_ClassEnumerated ==
    Returned =>
        /\ market_data[1].status_class \in StatusClasses
        /\ market_data[1].status_class # "maybe"

C5_Witness ==
    /\ Returned
    /\ response[1].kind = "OK"
    /\ ~response[1].object
    /\ market_data[1].status_class = "error"

KeyMissing == api_key = <<>> \/ api_key = <<"">>

\* C7: without the credential the process exits with 1 before any request,
\* report or page; every other run exits with 0.
C7_ExitStatus ==
    pc = "exited" =>
        /\ (KeyMissing => exit_code = <<1>> /\ requests_sent = 0 /\ ~Called
                             /\ ~Returned /\ output_file \in PriorFiles)
        /\ (~KeyMissing => exit_code = <<0>>)

\* C8: generate_html returns True only when the rendered report is in the
\* output file, returns False on every failure, and the run then still ends
\* with status 0.
C8_RenderResult ==
    html_result # <<>> =>
        /\ (html_result[1] =>
               /\ output_file.path = "index.html"
               /\ output_file.state = "written"
               /\ output_file.template = HTML_TEMPLATE_FILE
               /\ output_file.context = market_data)
        /\ (html_fault # "none" => ~html_result[1])
        /\ (pc = "exited" => exit_code = <<0>>)

C8_Witness ==
    /\ html_fault = "WriteError"
    /\ html_result = <<FALSE>>
    /\ pc = "exited"

\* the six mood classes by the ranges of the percent change (in hundredths)
RangeClass(p) ==
    CASE p <= -1000 -> "yes"
      [] -1000 < p /\ p <= -500 -> "bleeding"
      [] -500 < p /\ p < -200 -> "wobbly"
      [] p > 200 -> "no"
      [] 20 < p /\ p <= 200 -> "climbing"
      [] -200 <= p /\ p <= 20 -> "sideways"

ClassArrow(sc) ==
    IF sc \in {"yes", "bleeding", "wobbly"} THEN "down"
    ELSE IF sc \in {"no", "climbing"} THEN "up" ELSE "flat"

ClassText(sc) ==
    CASE sc = "yes" -> "YES!"
      [] sc = "bleeding" -> "BLEEDING"
      [] sc = "wobbly" -> "WOBBLY"
      [] sc = "no" -> "NOT YET!"
      [] sc = "climbing" -> "CLIMBING"
      [] sc = "sideways" -> "FLAT"

\* C9: a numeric or defaulted percent change p is classified by the ranges
\* p <= -10, -10 < p <= -5, -5 < p < -2, p > 2, 0.2 < p <= 2, -2 <= p <= 0.2
\* as yes, bleeding, wobbly (down), no, climbing (up), sideways (flat), each
\* class with its own status_text.
C9_Thresholds ==
    (QuoteRead /\ Returned) =>
        /\ market_data[1].status_class = RangeClass(Percent)
        /\ market_data[1].status_arrow = ClassArrow(RangeClass(Percent))
        /\ market_data[1].status_text = ClassText(RangeClass(Percent))
        /\ \A m \in MoodClasses \ {RangeClass(Percent)} :
               ClassText(m) # market_data[1].status_text

C9_Witness ==
    /\ QuoteRead /\ Returned
    /\ Percent > 200
    /\ market_data[1].status_class = "no"
    /\ market_data[1].status_arrow = "up"

\* status classes the lookup is tried on: the enumerated ones and some others
EmbedInputs == StatusClasses \cup {"maybe", "", "unknown"}

\* C10: the embed lookup gives a non-empty snippet for every class: each
\* enumerated class has its own entry, any other class gets the default
\* snippet, and the embed of every returned report is non-empty.
C10_EmbedNeverEmpty ==
    /\ \A sc \in EmbedInputs :
          /\ get_visual_humor_embed(sc) # ""
          /\ (sc \in StatusClasses =>
                 /\ sc \in DOMAIN embed_map
                 /\ get_visual_humor_embed(sc) = embed_map[sc]
                 /\ get_visual_humor_embed(sc) # default_embed
                 /\ \A other \in StatusClasses \ {sc} :
                        get_visual_humor_embed(other) # get_visual_humor_embed(sc))
          /\ (sc \notin StatusClasses => get_visual_humor_embed(sc) = default_embed)
    /\ (Returned =>
          /\ market_data[1].giphy_embed_code # ""
          /\ market_data[1].giphy_embed_code =
                 get_visual_humor_embed(market_data[1].status_class))

C10_Witness ==
    /\ Returned
    /\ market_data[1].status_class = "climbing"
    /\ market_data[1].giphy_embed_code = "https://giphy.com/embed/NEvPzZ8bd1V4Y"

====
